---- MODULE Spec2Model ----
(***************************************************************************)
(* MouldLensAI: the upload pipeline (shape gate, extraction, outcome       *)
(* record, persistence) and the correction endpoint of src/app.py, with    *)
(* the helpers of src/utils.py, src/services.py and the record types of    *)
(* src/schema.py.                                                          *)
(*                                                                         *)
(* Python's None is the empty tuple; a present value v is <<v>>.           *)
(* A MongoDB document is a function from key names to values; the          *)
(* collection mould_readings is a sequence of documents whose index        *)
(* stands for the document's ObjectId.                                     *)
(***************************************************************************)
EXTENDS Integers, Sequences, FiniteSets, Bags, TLC

VARIABLES
    db,      \* Database.db is not None (src/utils.py:11,17)
    store,   \* the documents of db.db["mould_readings"]
    last,    \* the request answered last: its inputs and what it answered
             \* (none once a handler has gone on to an await)
    pending  \* the handlers in flight, a bag: of each the request it is at
             \* work on and the await it stands at

vars == <<db, store, last, pending>>

None == <<>>
Some(v) == <<v>>

\* ------------------------------------------------------------------ bounds
\* the collection holds at most MaxSeeded documents when the service starts
MaxSeeded == 2
\* at most MaxInFlight handlers stand at an await at once; the server
\* itself sets no limit
MaxInFlight == 2
MaxBoxes == 4
\* the dashboard fetches at most MaxLogs records
MaxLogs == 3

\* ------------------------------------------------------- src/schema.py
\* DragValue(main, sub).model_dump()
DragValue(main, sub) == [main |-> main, sub |-> sub]

\* the fields MouldReadingResponse declares (its own and MouldReading's)
ResponseFields == {"cope", "drag", "mould_detected", "scan_time_ms", "timestamp"}

\* the fields declared with Field(...): no default, so they must be passed
RequiredFields == {"scan_time_ms", "timestamp"}

FieldDefault(f) == IF f = "mould_detected" THEN TRUE ELSE None

\* MouldReadingResponse(**kw): pydantic ignores keywords that are no field
\* of the model and raises ValidationError when a required field is missing.
MouldReadingResponse(kw) ==
    IF RequiredFields \subseteq DOMAIN kw
    THEN [ok  |-> TRUE,
          val |-> [f \in ResponseFields |->
                      IF f \in DOMAIN kw THEN kw[f] ELSE FieldDefault(f)]]
    ELSE [ok |-> FALSE, val |-> "ValidationError"]

\* response_data.id = inserted_id: assigning an attribute that is no field of
\* a pydantic model raises ValueError.
SetId(obj, inserted_id) ==
    IF "id" \in ResponseFields
    THEN [ok  |-> TRUE,
          val |-> [f \in DOMAIN obj |-> IF f = "id" THEN inserted_id ELSE obj[f]]]
    ELSE [ok |-> FALSE, val |-> "ValueError"]

\* ------------------------------------------------------- src/utils.py
InAreaBandInclusive(box, img_area) ==
    LET area == box[1] * box[2]
    IN  50 <= area /\ 10 * area <= img_area

\* the candidate test of one contour's bounding box <<w, h>>
InAreaBand(box, img_area) ==
    LET area == box[1] * box[2]
    IN  50 < area /\ 10 * area < img_area

\* 0.1 < float(w)/h < 10.0, the ratio taken as 0 when h = 0
InRatioBand(box) ==
    LET w == box[1]
        h == box[2]
    IN  IF h > 0 THEN h < 10 * w /\ w < 10 * h ELSE FALSE

\* the loop over the contours, valid_shapes so far being n
RECURSIVE CountShapes(_, _, _)
CountShapes(boxes, img_area, n) ==
    IF boxes = <<>> THEN FALSE
    ELSE LET box == Head(boxes)
         IN  IF InAreaBand(box, img_area)
             THEN LET m == IF InRatioBand(box) THEN n + 1 ELSE n
                  IN  IF m >= 3 THEN TRUE
                      ELSE CountShapes(Tail(boxes), img_area, m)
             ELSE CountShapes(Tail(boxes), img_area, n)

\* the bytes uploaded
\*   kind "empty":   no byte at all
\*   kind "garbage": bytes no image codec reads
\*   kind "image":   the encoding of an image of rows x cols, in which
\*                   findContours finds contours with the bounding boxes
\* cv2.imdecode(nparr, cv2.IMREAD_GRAYSCALE): the image, None when no codec
\* reads the bytes, and cv2.error (assertion !buf.empty()) on an empty buffer
imdecode(image_bytes) ==
    IF image_bytes.kind = "empty"
    THEN [raised |-> TRUE, val |-> "cv2.error"]
    ELSE IF image_bytes.kind = "garbage"
    THEN [raised |-> FALSE, val |-> None]
    ELSE [raised |-> FALSE, val |-> Some(image_bytes)]

\* the try block of contains_potential_digits (lines 48-86): [raised, val]
GateTry(image_bytes) ==
    LET img == imdecode(image_bytes)
    IN  IF img.raised THEN [raised |-> TRUE, val |-> FALSE]
        ELSE IF img.val = None THEN [raised |-> FALSE, val |-> FALSE]
        ELSE [raised |-> FALSE,
              val |-> CountShapes(img.val[1].boxes,
                                  img.val[1].rows * img.val[1].cols, 0)]

\* the except block (lines 87-90): the gate fails open
GateExcept(e) == TRUE

contains_potential_digits(img) ==
    LET t == GateTry(img)
    IN  IF t.raised THEN GateExcept(t) ELSE t.val

\* save_mould_reading(reading_data): the collection afterwards and the id
\* returned; fault: collection.insert_one raises (caught, None returned)
save_mould_reading(st, isConnected, reading_data, fault) ==
    IF isConnected
    THEN IF fault
         THEN [store |-> st, id |-> None, inserts |-> 0]
         ELSE [store |-> Append(st, reading_data),
               id |-> Some(Len(st) + 1), inserts |-> 1]
    ELSE [store |-> st, id |-> None, inserts |-> 0]

\* ------------------------------------------------------- src/services.py
IsNotNone(s) == s # None

\* Python truthiness of an optional string
Truthy(s) == s # None /\ s # Some("")

\* the ValueError raised when settings.groq_api_key is empty: the
\* configuration error
ConfigurationError == "GROQ_API_KEY is not configured in .env"

\* extract_mould_values(image_bytes, mime_type), given the configuration and
\* what the model call does: [ok, val] with val the MouldReading returned or
\* the description of the exception raised.
extract_mould_values(llm) ==
    IF ~llm.key
    THEN [ok |-> FALSE, val |-> ConfigurationError]
    ELSE IF llm.kind = "error"
    THEN [ok |-> FALSE, val |-> llm.d]
    ELSE IF llm.kind = "badjson"
    THEN [ok |-> FALSE, val |-> "LLM returned invalid JSON"]
    ELSE [ok  |-> TRUE,
          val |-> [cope |-> llm.cope,
                   drag |-> IF Truthy(llm.drag_main)
                            THEN Some(DragValue(llm.drag_main[1], llm.drag_sub))
                            ELSE None]]

\* ------------------------------------------------------- src/app.py
\* the keyword arguments of the three MouldReadingResponse(...) calls
EmptyKw(env) ==
    [status |-> "empty", message |-> <<"Nothing detected, mould missing">>,
     cope |-> None, drag |-> None, timestamp |-> env.now,
     processing_time_ms |-> env.elapsed, camera_id |-> env.camera_id]

SuccessKw(env, result) ==
    [status |-> "success", message |-> <<"Mould detected successfully">>,
     cope |-> result.cope, drag |-> result.drag, timestamp |-> env.now,
     processing_time_ms |-> env.elapsed, camera_id |-> env.camera_id]

ErrorKw(env, e) ==
    [status |-> "error", message |-> <<"Extraction failed: ", e>>,
     cope |-> None, drag |-> None, timestamp |-> env.now,
     processing_time_ms |-> env.elapsed, camera_id |-> env.camera_id]

\* The handler gives up control at its awaits.  Where upload_image stands
\* when it does: waiting for insert_one with the record obj built in the try
\* or in the except block (phase), or waiting for file.close() in the finally
\* block with its outcome decided (raised: an exception leaves the handler,
\* val: its description or the record returned); calls, built and inserts
\* count the model calls, constructions and inserts made so far.
AwaitInsert(phase, obj, calls, built, inserts) ==
    [pc |-> "insert", phase |-> phase, obj |-> obj,
     calls |-> calls, built |-> built, inserts |-> inserts]

Ended(raised, val, calls, built, inserts) ==
    [pc |-> "close", raised |-> raised, val |-> val,
     calls |-> calls, built |-> built, inserts |-> inserts]

RECURSIVE UploadExcept(_, _, _, _, _, _)

\* an exception e raised in the try block enters the except block; raised in
\* the except block it leaves the handler through finally
Raise(phase, isConnected, env, e, calls, built, inserts) ==
    IF phase = "try"
    THEN UploadExcept(isConnected, env, e, calls, built, inserts)
    ELSE Ended(TRUE, e, calls, built, inserts)

\* MouldReadingResponse(**kw), then "if db.db is not None: inserted_id =
\* await save_mould_reading(...)", else the return of the record
BuildAndPersist(phase, isConnected, kw, env, calls, built, inserts) ==
    LET made == MouldReadingResponse(kw)
    IN  IF made.ok
        THEN IF isConnected
             THEN AwaitInsert(phase, made.val, calls, built + 1, inserts)
             ELSE Ended(FALSE, made.val, calls, built + 1, inserts)
        ELSE Raise(phase, isConnected, env, made.val, calls, built, inserts)

\* the handler h resumed with what save_mould_reading returned:
\* "response_data.id = inserted_id" and the return of the record
PersistAndReturn(h, isConnected, sv) ==
    LET sid == SetId(h.obj, sv.id)
    IN  IF sid.ok
        THEN Ended(FALSE, sid.val, h.calls, h.built, h.inserts + sv.inserts)
        ELSE Raise(h.phase, isConnected, h.env, sid.val,
                   h.calls, h.built, h.inserts + sv.inserts)

\* the try block of upload_image (lines 50-142) from the return of
\* file.read() to the next await
UploadTry(isConnected, env) ==
    IF env.readFault
    THEN Raise("try", isConnected, env, "read failed", 0, 0, 0)
    ELSE IF ~contains_potential_digits(env.image)
    THEN BuildAndPersist("try", isConnected, EmptyKw(env), env, 0, 0, 0)
    ELSE LET result == extract_mould_values(env.llm)
         IN  IF ~result.ok
             THEN Raise("try", isConnected, env, result.val, 1, 0, 0)
             ELSE IF result.val.cope = None /\ result.val.drag = None
             THEN BuildAndPersist("try", isConnected, EmptyKw(env), env, 1, 0, 0)
             ELSE BuildAndPersist("try", isConnected,
                                  SuccessKw(env, result.val), env, 1, 0, 0)

\* the except block of upload_image (lines 143-170) entered with exception
\* e; start_time is unbound when file.read() raised
UploadExcept(isConnected, env, e, calls, built, inserts) ==
    IF env.readFault
    THEN Ended(TRUE, "UnboundLocalError", calls, built, inserts)
    ELSE BuildAndPersist("except", isConnected, ErrorKw(env, e), env,
                         calls, built, inserts)

\* ---- update_mould_reading (src/app.py:214-245)
\* ObjectId(reading_id): a string that is no 24-digit hexadecimal raises
\* InvalidId; a well-formed one names the document of that key
ObjectId(reading_id) ==
    IF reading_id.wellformed
    THEN [ok |-> TRUE, val |-> reading_id.key]
    ELSE [ok |-> FALSE, val |-> "InvalidId"]

\* a slip of update_data: the whole body, absent fields included
UpdateDataAll(reading) == [k \in {"cope", "drag"} |-> reading[k]]

\* update_data as built at lines 225-229: only the fields that are present
UpdateData(reading) ==
    [k \in {f \in {"cope", "drag"} : reading[f] # None} |-> reading[k]]

\* a slip of the provenance flag: written as False
WithFlagCleared(update_data) ==
    [k \in DOMAIN update_data \cup {"is_human_corrected"} |->
        IF k = "is_human_corrected" THEN FALSE ELSE update_data[k]]

\* update_data["is_human_corrected"] = True
WithFlag(update_data) ==
    [k \in DOMAIN update_data \cup {"is_human_corrected"} |->
        IF k = "is_human_corrected" THEN TRUE ELSE update_data[k]]

\* a slip of the update: the document replaced by upd, without $set
SetFieldsReplace(doc, upd) == upd

\* MongoDB's $set of the fields of upd on a document
SetFields(doc, upd) ==
    [k \in DOMAIN doc \cup DOMAIN upd |->
        IF k \in DOMAIN upd THEN upd[k] ELSE doc[k]]

\* collection.update_one({"_id": obj_id}, {"$set": upd}): the collection
\* afterwards and modified_count (0 when no document matches or when the
\* matched document already holds the values)
update_one(st, obj_id, upd) ==
    IF obj_id \in 1..Len(st)
    THEN LET doc == SetFields(st[obj_id], upd)
         IN  [store |-> [st EXCEPT ![obj_id] = doc],
              modified_count |-> IF doc = st[obj_id] THEN 0 ELSE 1]
    ELSE [store |-> st, modified_count |-> 0]

Http(code, detail) == [code |-> code, detail |-> detail]

\* where update_mould_reading stands when it gives up control: it has
\* answered, or it waits for update_one
Answered(out) == [pc |-> "done", out |-> out]

AwaitUpdate(obj_id, upd) == [pc |-> "await", obj_id |-> obj_id, upd |-> upd]

\* "except Exception as e: raise HTTPException(status_code=400,
\* detail=str(e))": it catches the HTTPException of line 243 as well, whose
\* str is "404: Record not found or no changes made"
UpdateExcept(e) ==
    IF e.code = 0 THEN Http(400, e.detail)
    ELSE Http(400, <<"404: ">> \o e.detail)

\* the try block up to the await (lines 223-239)
UpdateTry(reading_id, reading) ==
    LET obj_id      == ObjectId(reading_id)
        update_data == UpdateData(reading)
    IN  IF ~obj_id.ok
        THEN Answered(UpdateExcept(Http(0, <<obj_id.val>>)))
        ELSE IF DOMAIN update_data = {}
        THEN Answered(Http(200, <<"No changes requested">>))
        ELSE AwaitUpdate(obj_id.val, WithFlag(update_data))

\* the try block from the return of update_one (lines 240-245); result:
\* update_one raised, or its modified_count
UpdateResume(result) ==
    IF result.raised
    THEN UpdateExcept(Http(0, <<"store fault">>))
    ELSE IF result.modified_count = 1
    THEN Http(200, <<"Record updated successfully">>)
    ELSE UpdateExcept(Http(404, <<"Record not found or no changes made">>))

\* update_mould_reading(reading_id, reading) up to its await
update_mould_reading(isConnected, reading_id, reading) ==
    IF ~isConnected
    THEN Answered(Http(503, <<"Database connection unavailable">>))
    ELSE UpdateTry(reading_id, reading)

\* ------------------------------------------------- inputs and first state
\* The collection outlives the process: at startup it holds documents an
\* earlier writer left.  They have the fields the dashboard shows
\* (src/dashboard.py:184: timestamp, camera_id, status, cope, drag,
\* processing_time_ms) and a message, and were never corrected.  They are
\* not documents this upload_image could have stored: its
\* MouldReadingResponse(...) raises before any insert.
SeedDoc(status, message, cope, drag, ts) ==
    [status |-> status, message |-> message, cope |-> cope, drag |-> drag,
     timestamp |-> ts, processing_time_ms |-> 12, camera_id |-> "CAM_01"]

\* a document of the shape the schema dumps (cope, drag, mould_detected,
\* scan_time_ms, timestamp), which the dashboard takes as well
\* (src/dashboard.py:68-78)
SchemaDoc(cope, drag, ts) ==
    MouldReadingResponse([cope |-> cope, drag |-> drag, scan_time_ms |-> 12,
                          timestamp |-> ts]).val

\* the i-th document of the collection at startup: a success record, an
\* empty record and a record of the schema's shape in turn, in the order of
\* their timestamps
SeedAt(i) ==
    IF i % 3 = 1
    THEN SeedDoc("success", <<"Mould detected successfully">>, Some("81373"),
                 Some(DragValue("88234", Some("644"))), i)
    ELSE IF i % 3 = 2
    THEN SeedDoc("empty", <<"Nothing detected, mould missing">>, None, None, i)
    ELSE SchemaDoc(None, None, i)

SeedStores == {[i \in 1..n |-> SeedAt(i)] : n \in 0..MaxSeeded}

\* images: 100 x 100 images with three digit-like contours or with two and
\* an oversized one
Images ==
    { [kind |-> "image", rows |-> 100, cols |-> 100,
       boxes |-> <<<<10, 10>>, <<8, 12>>, <<12, 9>>>>],
      [kind |-> "image", rows |-> 100, cols |-> 100,
       boxes |-> <<<<10, 10>>, <<40, 40>>, <<12, 9>>>>] }

LLMReply(key, kind, d, cope, drag_main, drag_sub) ==
    [key |-> key, kind |-> kind, d |-> d,
     cope |-> cope, drag_main |-> drag_main, drag_sub |-> drag_sub]

\* the credential and what the model call does: no credential, the call
\* raises, the text is no JSON, or the JSON object parsed
LLMReplies ==
    { LLMReply(FALSE, "json", "", None, None, None),
      LLMReply(TRUE, "error", "timeout", None, None, None),
      LLMReply(TRUE, "badjson", "", None, None, None),
      LLMReply(TRUE, "json", "", None, None, None),
      LLMReply(TRUE, "json", "", Some("81373"), Some("88234"), Some("644")) }

\* what one upload meets once file.read() has returned: the image, the
\* model call, the clock
AllEnvs ==
    [readFault : {FALSE}, image : Images, llm : LLMReplies,
     now : {4}, elapsed : {12}, camera_id : {"CAM_01"}]

\* file.read() raises: nothing else is consulted
NoEnv ==
    [readFault |-> TRUE,
     image |-> [kind |-> "garbage", rows |-> 0, cols |-> 0, boxes |-> <<>>],
     llm |-> LLMReply(FALSE, "json", "", None, None, None),
     now |-> 4, elapsed |-> 12, camera_id |-> "CAM_01"]

UploadEnvs == AllEnvs \cup {NoEnv}

\* the reading_id strings of the correction requests
ReadingIds ==
    {[wellformed |-> TRUE, key |-> k] : k \in 1..(MaxSeeded + 1)}
        \cup {[wellformed |-> FALSE, key |-> 0]}

\* the MouldReading bodies of the correction requests
Readings ==
    [cope : {None, Some("99999")},
     drag : {None, Some(DragValue("77110", None))}]

\* one more handler may go to an await: a request is received while others
\* stand at their awaits, and the bound of the model is on those that do
MaySuspend == BagCardinality(pending) < MaxInFlight

\* the handlers in flight once a handler has taken up position u, once the
\* handler at t has moved on to u, and once the handler at t has answered
Enter(u) == pending (+) SetToBag({u})
Become(t, u) == (pending (-) SetToBag({t})) (+) SetToBag({u})
Leave(t) == pending (-) SetToBag({t})

Init ==
    /\ db = FALSE
    /\ store \in SeedStores
    /\ last = [op |-> "none"]
    /\ pending = EmptyBag

\* startup_db_client: db.connect()
Startup ==
    /\ ~db
    /\ db' = TRUE
    /\ UNCHANGED <<store, last, pending>>

\* POST /api/upload with a file part that has no content type (line 47
\* raises AttributeError, outside the try) or one that does not start with
\* "image/" (HTTPException 400)
UploadRejected ==
    \E content_type \in {None, Some("text/plain")} :
        /\ last' = [op |-> "upload", isImage |-> FALSE, connected |-> db,
                    env |-> NoEnv, storeFault |-> FALSE,
                    out |-> IF content_type = None
                            THEN [kind |-> "fault", val |-> "AttributeError"]
                            ELSE [kind |-> "http", val |-> 400],
                    calls |-> 0, built |-> 0, inserts |-> 0]
        /\ UNCHANGED <<db, store, pending>>

\* POST /api/upload with an image content type: the handler runs to
\* "await file.read()" (line 51)
UploadReceive ==
    /\ MaySuspend
    /\ pending' = Enter([op |-> "upload", pc |-> "read"])
    /\ last' = [op |-> "none"]
    /\ UNCHANGED <<db, store>>

\* the handler's position t with the request it belongs to; storeFault:
\* an insert_one of this request has raised
InFlight(t, env, connected, storeFault) ==
    t @@ [op |-> "upload", env |-> env, connected |-> connected,
          storeFault |-> storeFault]

\* the handler at t resumes from its await and runs to the next one: from
\* file.read(), meeting one of envs; from insert_one, which the collection
\* has then done; from file.close(), after which the request is answered
UploadResumeWith(t, envs) ==
    /\ t.op = "upload"
    /\ IF t.pc = "read"
       THEN /\ \E env \in envs :
                 pending' = Become(t, InFlight(UploadTry(db, env), env, db,
                                               FALSE))
            /\ last' = [op |-> "none"]
            /\ UNCHANGED <<db, store>>
       ELSE IF t.pc = "insert"
       THEN /\ \E fault \in BOOLEAN :
                 LET sv == save_mould_reading(store, db, t.obj, fault)
                 IN  /\ store' = sv.store
                     /\ pending' = Become(t,
                            InFlight(PersistAndReturn(t, db, sv), t.env,
                                     t.connected, t.storeFault \/ fault))
            /\ last' = [op |-> "none"]
            /\ UNCHANGED db
       ELSE /\ last' = [op |-> "upload", isImage |-> TRUE,
                        connected |-> t.connected, env |-> t.env,
                        storeFault |-> t.storeFault,
                        out |-> [kind |-> IF t.raised THEN "fault"
                                          ELSE "record",
                                 val |-> t.val],
                        calls |-> t.calls, built |-> t.built,
                        inserts |-> t.inserts]
            /\ pending' = Leave(t)
            /\ UNCHANGED <<db, store>>

UploadWith(envs) ==
    \/ UploadReceive
    \/ \E t \in BagToSet(pending) : UploadResumeWith(t, envs)

Upload == UploadWith(UploadEnvs)

\* PUT /api/metrics/update/{reading_id} with an identifier out of ids and a
\* body out of readings, whatever else is in flight: the handler runs to its
\* answer (503, 400 for a malformed identifier, 200 "No changes requested")
\* or to "await update_one(...)" (line 236)
CorrectReceiveWith(ids, readings) ==
    /\ \E reading_id \in ids, reading \in readings :
          LET t  == update_mould_reading(db, reading_id, reading)
              rq == [op |-> "update", connected |-> db,
                     reading_id |-> reading_id, reading |-> reading]
          IN  IF t.pc = "done"
              THEN /\ last' = rq @@ [fault |-> FALSE, out |-> t.out]
                   /\ UNCHANGED pending
              ELSE /\ MaySuspend
                   /\ pending' = Enter(t @@ rq)
                   /\ last' = [op |-> "none"]
    /\ UNCHANGED <<db, store>>

\* the collection does the update_one the handler at t waits for, or fails
\* to
CorrectWrite(t) ==
    /\ t.op = "update"
    /\ t.pc = "await"
    /\ \E fault \in BOOLEAN :
          LET result == update_one(store, t.obj_id, t.upd)
          IN  /\ store' = IF fault THEN store ELSE result.store
              /\ pending' = Become(t,
                     [op |-> "update", pc |-> "resume",
                      connected |-> t.connected,
                      reading_id |-> t.reading_id,
                      reading |-> t.reading, fault |-> fault,
                      result |-> [raised |-> fault,
                                  modified_count |->
                                      IF fault THEN 0
                                      ELSE result.modified_count]])
    /\ last' = [op |-> "none"]
    /\ UNCHANGED db

\* the handler resumes from update_one and answers (lines 240-245)
CorrectRespond(t) ==
    /\ t.op = "update"
    /\ t.pc = "resume"
    /\ last' = [op |-> "update", connected |-> t.connected,
                reading_id |-> t.reading_id,
                reading |-> t.reading, fault |-> t.fault,
                out |-> UpdateResume(t.result)]
    /\ pending' = Leave(t)
    /\ UNCHANGED <<db, store>>

CorrectWith(ids, readings) ==
    \/ CorrectReceiveWith(ids, readings)
    \/ \E t \in BagToSet(pending) : CorrectWrite(t) \/ CorrectRespond(t)

Correct == CorrectWith(ReadingIds, Readings)

Next == Startup \/ UploadRejected \/ Upload \/ Correct

Spec == Init /\ [][Next]_vars

\* ---- corrections of the first two documents, with a cope, with a drag or
\* with neither, among uploads: an identifier names a document or, in a
\* smaller collection, none
TargetIds ==
    {[wellformed |-> TRUE, key |-> k] : k \in 1..2}
        \cup {[wellformed |-> FALSE, key |-> 0]}

PartialReadings ==
    { [cope |-> None, drag |-> None],
      [cope |-> Some("99999"), drag |-> None],
      [cope |-> None, drag |-> Some(DragValue("77110", None))] }

\* the uploads among them: file.read() raises, or the gate accepts the image
\* and the model reads a cope and a drag
CorrectEnvs ==
    { NoEnv,
      [readFault |-> FALSE,
       image |-> [kind |-> "image", rows |-> 100, cols |-> 100,
                  boxes |-> <<<<10, 10>>, <<8, 12>>, <<12, 9>>>>],
       llm |-> LLMReply(TRUE, "json", "", Some("81373"), Some("88234"),
                        Some("644")),
       now |-> 4, elapsed |-> 12, camera_id |-> "CAM_01"] }

UploadAmong == UploadWith(CorrectEnvs)

CorrectPartial == CorrectWith(TargetIds, PartialReadings)

NextCorrect == Startup \/ UploadRejected \/ UploadAmong \/ CorrectPartial

SpecCorrect == Init /\ [][NextCorrect]_vars

\* ---- uploads of bytes that are no image: bytes no codec reads, and an
\* empty file
GateImages ==
    Images \cup
    { [kind |-> "garbage", rows |-> 0, cols |-> 0, boxes |-> <<>>],
      [kind |-> "empty", rows |-> 0, cols |-> 0, boxes |-> <<>>] }

GateEnvs ==
    [readFault : {FALSE}, image : GateImages, llm : LLMReplies,
     now : {4}, elapsed : {12}, camera_id : {"CAM_01"}]

UploadGate == UploadWith(GateEnvs)

NextGate == Startup \/ UploadRejected \/ UploadGate

SpecGate == Init /\ [][NextGate]_vars

\* ---- contains_potential_digits on decoded images: 100 x 100 pixels, the
\* bounding boxes <<w, h>> of the contours found lying on and around the
\* limits of the two bands (area 50 and 1000, ratio 0.1 and 10, height 0)
ShapeBoxes ==
    { <<10, 10>>, <<6, 9>>, <<5, 10>>, <<25, 40>>, <<3, 30>>, <<30, 3>>,
      <<10, 0>> }

ShapeImages ==
    UNION { { [kind |-> "image", rows |-> 100, cols |-> 100, boxes |-> b] :
                b \in [1..n -> ShapeBoxes] } : n \in 0..MaxBoxes }

InitShapes ==
    /\ db = FALSE
    /\ store = <<>>
    /\ \E img \in ShapeImages : last = [op |-> "image", img |-> img]
    /\ pending = <<>>

Assess ==
    /\ last.op = "image"
    /\ last' = [op |-> "gate", img |-> last.img,
                out |-> contains_potential_digits(last.img)]
    /\ UNCHANGED <<db, store, pending>>

NextShapes == Assess

SpecShapes == InitShapes /\ [][NextShapes]_vars

\* ---- two correction requests for the same document, each handler running
\* up to its `await update_one(...)`, the store applying the update, the
\* handler resuming with the result (src/app.py:214-245)
Racers == {1, 2}

RaceTarget == [wellformed |-> TRUE, key |-> 1]

\* the bodies request p may send: a cope both may send or one of its own,
\* and a drag of its own
RaceReadings(p) ==
    [cope : {None, Some("99999"), Some(IF p = 1 THEN "11111" ELSE "22222")},
     drag : {None, Some(DragValue(IF p = 1 THEN "77110" ELSE "77220", None))}]

\* last keeps the collection as the requests found it and the order in
\* which the store applied their updates
InitRace ==
    /\ db = TRUE
    /\ store \in {st \in SeedStores : Len(st) >= 1}
    /\ last = [op |-> "race", before |-> store, writes |-> <<>>]
    /\ pending = [p \in Racers |-> [pc |-> "idle"]]

\* lines 220-234: the handler up to the await
Receive(p) ==
    /\ pending[p].pc = "idle"
    /\ \E reading \in RaceReadings(p) :
          pending' = [pending EXCEPT ![p] =
              update_mould_reading(db, RaceTarget, reading)
                  @@ [reading |-> reading]]
    /\ UNCHANGED <<db, store, last>>

\* lines 236-239: the store applies one update_one
Write(p) ==
    /\ pending[p].pc = "await"
    /\ LET result == update_one(store, pending[p].obj_id, pending[p].upd)
       IN  /\ store' = result.store
           /\ pending' = [pending EXCEPT ![p] =
                  [pc |-> "resume", reading |-> pending[p].reading,
                   modified_count |-> result.modified_count]]
    /\ last' = [last EXCEPT !.writes = Append(@, p)]
    /\ UNCHANGED db

\* lines 240-245: the handler after the await
Respond(p) ==
    /\ pending[p].pc = "resume"
    /\ pending' = [pending EXCEPT ![p] =
          [pc |-> "done", reading |-> pending[p].reading,
           out |-> UpdateResume([raised |-> FALSE,
                                 modified_count |-> pending[p].modified_count])]]
    /\ UNCHANGED <<db, store, last>>

NextRace == \E p \in Racers : Receive(p) \/ Write(p) \/ Respond(p)

SpecRace == InitRace /\ [][NextRace]_vars

\* ------------------------------------------------------- src/dashboard.py
\* pd.DataFrame(raw_logs): the columns are the keys any record has, a cell
\* is <<v>> for the value v of the record and NaN where the record has no
\* such key
NaN == <<>>

notna(cell) == cell # NaN

DataFrame(raw_logs) ==
    LET columns == UNION {DOMAIN raw_logs[i] : i \in 1..Len(raw_logs)}
    IN  [columns |-> columns,
         rows |-> [i \in 1..Len(raw_logs) |->
                     [c \in columns |->
                         IF c \in DOMAIN raw_logs[i]
                         THEN <<raw_logs[i][c]>> ELSE NaN]]]

\* df[col] = cells, cells[i] being the new cell of row i
SetColumn(df, col, cells) ==
    [columns |-> df.columns \cup {col},
     rows |-> [i \in DOMAIN df.rows |->
                 [c \in df.columns \cup {col} |->
                     IF c = col THEN cells[i] ELSE df.rows[i][c]]]]

\* lines 66-67
StatusDefault(df) ==
    IF "status" \notin df.columns
    THEN SetColumn(df, "status", [i \in DOMAIN df.rows |-> <<"success">>])
    ELSE df

\* lines 68-72; x.get('mould_detected', True) on a NaN cell is NaN, which
\* Python takes as true
StatusFromMouldDetected(df) ==
    IF "mould_detected" \in df.columns
    THEN SetColumn(df, "status",
             [i \in DOMAIN df.rows |->
                 LET x == df.rows[i]
                 IN  IF notna(x["status"]) THEN x["status"]
                     ELSE IF x["mould_detected"] \in {NaN, <<TRUE>>}
                     THEN <<"success">> ELSE <<"empty">>])
    ELSE df

\* line 83: df['status'].fillna("success")
StatusFillna(df) ==
    SetColumn(df, "status",
        [i \in DOMAIN df.rows |->
            IF notna(df.rows[i]["status"]) THEN df.rows[i]["status"]
            ELSE <<"success">>])

\* the status column the dashboard works with from line 83 on
MappedStatus(raw_logs) ==
    LET df == StatusFillna(StatusFromMouldDetected(StatusDefault(
                  DataFrame(raw_logs))))
    IN  [i \in 1..Len(raw_logs) |-> df.rows[i]["status"]]

\* the records fetched: of today's shape (status), of the legacy shape
\* (mould_detected, scan_time_ms), or with neither field
LogDocs ==
    { [status |-> "success", processing_time_ms |-> 12],
      [status |-> "empty", processing_time_ms |-> 12],
      [status |-> "error", processing_time_ms |-> 12],
      [mould_detected |-> TRUE, scan_time_ms |-> 12],
      [mould_detected |-> FALSE, scan_time_ms |-> 12],
      [scan_time_ms |-> 12] }

\* raw_logs is not empty (line 59)
InitLogs ==
    /\ db = TRUE
    /\ store = <<>>
    /\ \E n \in 1..MaxLogs : \E raw_logs \in [1..n -> LogDocs] :
          last = [op |-> "fetched", raw_logs |-> raw_logs]
    /\ pending = <<>>

MapStatus ==
    /\ last.op = "fetched"
    /\ last' = [op |-> "mapped", raw_logs |-> last.raw_logs,
                status |-> MappedStatus(last.raw_logs)]
    /\ UNCHANGED <<db, store, pending>>

NextLogs == MapStatus

SpecLogs == InitLogs /\ [][NextLogs]_vars

\* ---- extract_mould_values on every JSON object of three optional strings
ExtractStrings(v) == {None, Some(""), Some(v)}

ExtractReplies ==
    LLMReplies \cup
    { LLMReply(TRUE, "json", "", c, m, b) :
        c \in ExtractStrings("81373"), m \in ExtractStrings("88234"),
        b \in ExtractStrings("644") }

Extract ==
    \E llm \in ExtractReplies :
        /\ last' = [op |-> "extract", llm |-> llm,
                    out |-> extract_mould_values(llm)]
        /\ UNCHANGED <<db, store, pending>>

NextExtract == Startup \/ Extract

SpecExtract == Init /\ [][NextExtract]_vars

\* ---- corrections as the dashboard's override form sends them
\* (src/dashboard.py:300-306): "main" is the text of the DRAG MAIN input,
\* empty when the operator leaves it so, and DragValue.main: str accepts it
BlankReadings ==
    [cope : {None, Some("99999")},
     drag : {None, Some(DragValue("", Some("644")))}]

CorrectBlank == CorrectWith(ReadingIds, BlankReadings)

NextBlank == Startup \/ UploadRejected \/ Upload \/ CorrectBlank

SpecBlank == Init /\ [][NextBlank]_vars

\* ---- get_recent_metrics (src/app.py:181-212)
\* Times are hours since an epoch; a day is timedelta(days=1).
Day == 24
\* datetime.max and datetime.min in whole hours from 2024-01-01T00:00, the
\* hour 0 of the timestamps
DatetimeMaxHour == 69916175
DatetimeMinHour == -17733240
\* cursor.to_list(length=5000)
ListLimit == 5000
\* small collections of the query specification hold at most MaxQueryDocs
MaxQueryDocs == 2

\* datetime.fromisoformat(s): the instant of an ISO string, ValueError else
\* datetime.fromisoformat(s): the hour the date starts at
fromisoformat(s) ==
    IF s.iso THEN [ok |-> TRUE, val |-> s.hour]
    ELSE [ok |-> FALSE, val |-> "ValueError"]

\* Python truthiness of an optional date string
TruthyDate(s) == s # None /\ ~s[1].empty

\* a slip of the range: the end date taken as the end instant
RangeQueryNoDay(start, end) == [gte |-> start, lt |-> Some(end)]

\* query["timestamp"] = {"$gte": start, "$lt": end + timedelta(days=1)}
RangeQuery(start, end) == [gte |-> start, lt |-> Some(end + Day)]

\* query["timestamp"] = {"$gte": utcnow() - timedelta(hours=hours)}
WindowQuery(now, hours) == [gte |-> now - hours, lt |-> None]

\* whether a document matches the timestamp filter
Matches(doc, q) ==
    /\ "timestamp" \in DOMAIN doc
    /\ q.gte <= doc.timestamp
    /\ q.lt # None => doc.timestamp < q.lt[1]

Ids(st) == [i \in 1..Len(st) |-> i]
Reverse(seq) == [i \in 1..Len(seq) |-> seq[Len(seq) + 1 - i]]
MaxOf(S) == CHOOSE x \in S : \A y \in S : y <= x

\* find(query): the ids of the matching documents
find(st, q) == SelectSeq(Ids(st), LAMBDA i : Matches(st[i], q))

\* sort("timestamp", -1) of the ids in ids whose timestamps are in stamps:
\* newest first; the order among equal timestamps is the store's choice
\* (ties: "asc" in insertion order, "desc" against it)
RECURSIVE SortDesc(_, _, _, _)
SortDesc(st, ids, stamps, ties) ==
    IF stamps = {} THEN <<>>
    ELSE LET t    == MaxOf(stamps)
             same == SelectSeq(ids, LAMBDA i : st[i].timestamp = t)
         IN  (IF ties = "asc" THEN same ELSE Reverse(same))
                 \o SortDesc(st, ids, stamps \ {t}, ties)

sort(st, ids, ties) ==
    SortDesc(st, ids, {st[ids[k]].timestamp : k \in 1..Len(ids)}, ties)

\* to_list(length): at most length documents from the front of the cursor
to_list(cursor, length) ==
    SubSeq(cursor, 1, IF Len(cursor) < length THEN Len(cursor) ELSE length)

\* what get_recent_metrics answers: the status code and the ids of the
\* documents returned, in order (500: an exception left the handler)
Logs(code, logs) == [code |-> code, logs |-> logs]

\* where get_recent_metrics stands when it waits for cursor.to_list
AwaitList(query) == [pc |-> "to_list", query |-> query]

\* get_recent_metrics(hours, start_date, end_date) up to its await (lines
\* 187-205); datetime + timedelta raises OverflowError beyond datetime.max
\* and datetime.min, which the handler does not catch
get_recent_metrics(isConnected, hours, start_date, end_date, now) ==
    IF ~isConnected
    THEN Answered(Logs(503, <<>>))
    ELSE IF TruthyDate(start_date) /\ TruthyDate(end_date)
    THEN LET start == fromisoformat(start_date[1])
             end   == fromisoformat(end_date[1])
         IN  IF ~start.ok \/ ~end.ok
             THEN Answered(Logs(400, <<>>))
             ELSE IF end.val + Day > DatetimeMaxHour
             THEN Answered(Logs(500, <<>>))
             ELSE AwaitList(RangeQuery(start.val, end.val))
    ELSE IF now - hours < DatetimeMinHour \/ now - hours > DatetimeMaxHour
    THEN Answered(Logs(500, <<>>))
    ELSE AwaitList(WindowQuery(now, hours))

\* the handler resumed from cursor.to_list(length=5000), which raised or
\* returned the documents (lines 206-212)
ListResume(st, query, ties, fault) ==
    IF fault THEN Logs(500, <<>>)
    ELSE Logs(200, to_list(sort(st, find(st, query), ties), ListLimit))

\* the documents of the query specification differ in their timestamps:
\* the first and last hour of day 0, the first hour of day 1 and of day 2
QueryStamps == {0, 23, 24, 48}
QueryDoc(ts) ==
    SeedDoc("empty", <<"Nothing detected, mould missing">>, None, None, ts)

\* collections of a few documents, and a collection of more than ListLimit
\* documents: three of day 1, the first two and the last one inserted, and
\* the last hour of day 0 for the rest
QueryStores ==
    UNION {[1..n -> {QueryDoc(t) : t \in QueryStamps}] : n \in 0..MaxQueryDocs}
    \cup { [i \in 1..ListLimit + 3 |->
               QueryDoc(IF i \in {1, 2, ListLimit + 3} THEN 24 ELSE 23)] }

\* the date strings of a request: the empty string, a text that is no ISO
\* date, day 0, day 1, and the last day datetime can hold
DateString(empty, iso, hour) == [empty |-> empty, iso |-> iso, hour |-> hour]

EmptyDate == DateString(TRUE, FALSE, 0)
NoDate    == DateString(FALSE, FALSE, 0)
Day0      == DateString(FALSE, TRUE, 0)
Day1      == DateString(FALSE, TRUE, Day)
LastDay   == DateString(FALSE, TRUE, DatetimeMaxHour - 23)

\* one request: hours, start_date, end_date and the clock
QueryRequest(hours, start_date, end_date) ==
    [hours |-> hours, start_date |-> start_date, end_date |-> end_date,
     now |-> 49]

\* the requests: date ranges, ranges with a date that is no ISO date or out
\* of reach, the rolling window, windows whose cutoff lies before
\* datetime.min or after datetime.max, and such a window asked for with an
\* empty start date or with a start date alone
QueryRequests ==
    { QueryRequest(24, Some(r[1]), Some(r[2])) :
        r \in { <<Day0, Day1>>, <<Day1, Day1>>, <<NoDate, Day0>>,
                <<Day0, NoDate>>, <<Day0, LastDay>> } }
    \cup { QueryRequest(hours, None, None) :
             hours \in {24, 100000000, -70000000} }
    \cup { QueryRequest(100000000, Some(EmptyDate), Some(Day1)),
           QueryRequest(100000000, Some(Day0), None) }

InitQuery ==
    /\ db = FALSE
    /\ store \in QueryStores
    /\ last = [op |-> "none"]
    /\ pending = EmptyBag

\* GET /api/metrics/recent, whatever else is in flight: the handler runs
\* to its answer (503, 400, 500) or to "await cursor.to_list(length=5000)"
\* (line 206)
QueryReceive ==
    /\ \E rq \in QueryRequests :
          LET t == get_recent_metrics(db, rq.hours, rq.start_date,
                                      rq.end_date, rq.now)
              r == [op |-> "query", connected |-> db, rq |-> rq]
          IN  IF t.pc = "done"
              THEN /\ last' = r @@ [fault |-> FALSE, out |-> t.out]
                   /\ UNCHANGED pending
              ELSE /\ MaySuspend
                   /\ pending' = Enter(t @@ r)
                   /\ last' = [op |-> "none"]
    /\ UNCHANGED <<db, store>>

\* the store runs the cursor, giving documents of equal timestamp in one
\* order or the other, or fails to, and the handler at t answers
QueryAnswer(t) ==
    /\ t.op = "query"
    /\ t.pc = "to_list"
    /\ \E fault \in BOOLEAN, ties \in {"asc", "desc"} :
          last' = [op |-> "query", connected |-> t.connected,
                   rq |-> t.rq, fault |-> fault,
                   out |-> ListResume(store, t.query, ties, fault)]
    /\ pending' = Leave(t)
    /\ UNCHANGED <<db, store>>

Query == QueryReceive \/ \E t \in BagToSet(pending) : QueryAnswer(t)

NextQuery == Startup \/ Query

SpecQuery == InitQuery /\ [][NextQuery]_vars

\* ------------------------------------------------------------ the claims
\* reading a key a document or record may lack
Has(rec, k, v) == k \in DOMAIN rec /\ rec[k] = v
Status(doc) == IF "status" \in DOMAIN doc THEN doc.status ELSE "absent"
Present(doc) ==
    \/ "cope" \in DOMAIN doc /\ doc.cope # None
    \/ "drag" \in DOMAIN doc /\ doc.drag # None
IsHumanCorrected(doc) == Has(doc, "is_human_corrected", TRUE)

\* the last request was an upload that reached the shape gate
GateReached == last.op = "upload" /\ last.isImage /\ ~last.env.readFault
GateAccepted == GateReached /\ contains_potential_digits(last.env.image)
GateRejected == GateReached /\ ~contains_potential_digits(last.env.image)
Returned == last.out.kind = "record"

\* C1: an upload the shape gate rejects never calls extract_mould_values
\* and answers a record with status empty, cope and drag absent.
C1_RejectedIsEmpty ==
    GateRejected =>
        /\ last.calls = 0
        /\ Returned
        /\ Has(last.out.val, "status", "empty")
        /\ Has(last.out.val, "cope", None)
        /\ Has(last.out.val, "drag", None)

\* the part of C1 the code keeps: no model call after a rejection
C1_NoCallWhenRejected == GateRejected => last.calls = 0

C3_AlwaysStructured ==
    (last.op = "upload" /\ last.isImage) =>
        /\ Returned
        /\ Status(last.out.val) \in {"success", "empty", "error"}

\* C4: when extract_mould_values raises with description d the upload answers
\* a record of status error whose message holds d, cope and drag absent, and
\* that record is the one inserted when the collection takes it.
C4_ExtractionError ==
    (GateAccepted /\ ~extract_mould_values(last.env.llm).ok) =>
        /\ Returned
        /\ Has(last.out.val, "status", "error")
        /\ Has(last.out.val, "message",
               <<"Extraction failed: ", extract_mould_values(last.env.llm).val>>)
        /\ Has(last.out.val, "cope", None)
        /\ Has(last.out.val, "drag", None)
        /\ (last.connected /\ ~last.storeFault) =>
              /\ last.inserts = 1
              /\ Status(store[Len(store)]) = "error"

\* C5: when the gate accepts and extraction returns r, the record is success
\* with r's cope and drag if one of them is present, else empty with both
\* absent.
C5_Classification ==
    (GateAccepted /\ extract_mould_values(last.env.llm).ok) =>
        LET r == extract_mould_values(last.env.llm).val
        IN  /\ Returned
            /\ IF r.cope # None \/ r.drag # None
               THEN /\ Has(last.out.val, "status", "success")
                    /\ Has(last.out.val, "message", <<"Mould detected successfully">>)
                    /\ Has(last.out.val, "cope", r.cope)
                    /\ Has(last.out.val, "drag", r.drag)
               ELSE /\ Has(last.out.val, "status", "empty")
                    /\ Has(last.out.val, "message", <<"Nothing detected, mould missing">>)
                    /\ Has(last.out.val, "cope", None)
                    /\ Has(last.out.val, "drag", None)

\* C6: each upload constructs one outcome record and inserts at most once.
C6_OneRecordOneInsert ==
    (last.op = "upload" /\ last.isImage) =>
        /\ last.built = 1
        /\ last.inserts <= 1

\* the part of C6 the code keeps: no upload inserts twice
C6_AtMostOneInsert == last.op = "upload" => last.inserts <= 1

\* C7: when the collection is not connected or insert_one faults the upload
\* inserts nothing and still answers its record, without an identifier; an
\* identifier is in the answer only after an insert.
C7_PersistenceBestEffort ==
    (last.op = "upload" /\ last.isImage) =>
        /\ (~last.connected \/ last.storeFault) =>
              /\ last.inserts = 0
              /\ Returned
              /\ ~("id" \in DOMAIN last.out.val /\ last.out.val.id # None)
        /\ (Returned /\ "id" \in DOMAIN last.out.val /\ last.out.val.id # None)
              => last.inserts = 1

\* the answers of update_mould_reading
NoChanges == Http(200, <<"No changes requested">>)
Updated == Http(200, <<"Record updated successfully">>)
EmptyReading == [cope |-> None, drag |-> None]

\* the handler at t waits for the update_one of a correction or has it back
AtStore(t) == t.op = "update" /\ t.pc \in {"await", "resume"}

\* in this step the collection does the update_one the handler at t waits
\* for, and the handler has it back at u
Writes(t, u) ==
    /\ t.op = "update" /\ t.pc = "await"
    /\ u.op = "update" /\ u.pc = "resume"
    /\ u.reading_id = t.reading_id /\ u.reading = t.reading
    /\ ~u.fault
    /\ pending' = Become(t, u)

\* C8: a correction with neither cope nor drag leaves the collection as it
\* was (its handler never reaches update_one) and answers "No changes
\* requested".
C8_EmptyCorrection ==
    /\ \A t \in BagToSet(pending) : AtStore(t) => t.reading # EmptyReading
    /\ (last.op = "update" /\ last.reading = EmptyReading) => last.out = NoChanges

\* C8 as amended: it leaves the collection as it was in every case, and
\* answers "No changes requested" when the collection is connected and the
\* identifier is well-formed.
C8_EmptyCorrectionConnected ==
    /\ \A t \in BagToSet(pending) : AtStore(t) => t.reading # EmptyReading
    /\ (/\ last.op = "update"
        /\ last.reading = EmptyReading
        /\ last.connected
        /\ last.reading_id.wellformed) => last.out = NoChanges

\* an empty correction was made on a stored record and answered "no changes"
C8_Witness ==
    /\ last.op = "update"
    /\ last.reading = EmptyReading
    /\ last.reading_id.wellformed
    /\ last.reading_id.key \in 1..Len(store)
    /\ last.out = NoChanges

\* the keys of a document other than those in ks keep their values
KeepsExcept(old, new, ks) ==
    \A k \in DOMAIN old \ ks : k \in DOMAIN new /\ new[k] = old[k]

\* in this step the collection applies the correction of the handler at t,
\* which supplied field f and not field g
AppliedOnly(t, u, f, g) ==
    /\ Writes(t, u)
    /\ t.reading[f] # None
    /\ t.reading[g] = None
    /\ t.obj_id \in 1..Len(store)

\* document i becomes a corrected document with v in field f, the rest of it
\* and every other document as before
OnlyFieldChanged(i, f, v) ==
    /\ i \in 1..Len(store)
    /\ Len(store') = Len(store)
    /\ \A j \in 1..Len(store) : j # i => store'[j] = store[j]
    /\ Has(store'[i], f, v)
    /\ IsHumanCorrected(store'[i])
    /\ KeepsExcept(store[i], store'[i], {f, "is_human_corrected"})
    /\ DOMAIN store'[i] = DOMAIN store[i] \cup {f, "is_human_corrected"}

\* C9: a correction supplying only cope (only drag) changes cope (drag) and
\* is_human_corrected of that record and nothing else in the collection.
C9_OnlySuppliedFieldChanges ==
    [][\A t \in BagToSet(pending), u \in BagToSet(pending') :
          /\ AppliedOnly(t, u, "cope", "drag")
                => OnlyFieldChanged(t.obj_id, "cope", t.reading.cope)
          /\ AppliedOnly(t, u, "drag", "cope")
                => OnlyFieldChanged(t.obj_id, "drag", t.reading.drag)
      ]_vars

\* a cope-only correction was applied to a record that holds a drag, in a
\* collection of two records
C9_Witness ==
    /\ last.op = "update"
    /\ last.reading = [cope |-> Some("99999"), drag |-> None]
    /\ last.out = Updated
    /\ Len(store) = 2
    /\ Has(store[last.reading_id.key], "cope", Some("99999"))
    /\ Has(store[last.reading_id.key], "drag", Some(DragValue("88234", Some("644"))))
    /\ IsHumanCorrected(store[last.reading_id.key])

\* C10: a non-empty correction whose well-formed identifier names no stored
\* record is answered 404, unlike a malformed identifier.
C10_NotFoundIs404 ==
    (/\ last.op = "update"
     /\ last.connected
     /\ ~last.fault
     /\ last.reading # EmptyReading
     /\ last.reading_id.wellformed
     /\ last.reading_id.key \notin 1..Len(store)) => last.out.code = 404

\* the part of C10 the code keeps: such a correction changes nothing
C10_NotFoundChangesNothing ==
    [][\A t \in BagToSet(pending), u \in BagToSet(pending') :
          (Writes(t, u) /\ u.result.modified_count = 0)
              => store' = store]_vars

\* the last upload reached extract_mould_values with no credential configured
NoCredential == GateAccepted /\ ~last.env.llm.key

C11_ExtractionRaises ==
    NoCredential =>
        /\ last.calls = 1
        /\ ~extract_mould_values(last.env.llm).ok
        /\ extract_mould_values(last.env.llm).val = ConfigurationError
        /\ last.inserts = 0

\* the last request was a query with a start_date and an end_date, both
\* of them dates
RangeRequested ==
    /\ last.op = "query"
    /\ last.rq.start_date # None /\ last.rq.end_date # None
    /\ last.rq.start_date[1].iso /\ last.rq.end_date[1].iso

\* document i lies in the range of the last request
InRange(i) ==
    /\ "timestamp" \in DOMAIN store[i]
    /\ last.rq.start_date[1].hour <= store[i].timestamp
    /\ store[i].timestamp < last.rq.end_date[1].hour + Day

\* C12: a query with a start_date and an end_date answers only documents
\* with start <= timestamp < end + 1 day, newest first, at most 5000 of
\* them, each once; answered 200 they are as many as match up to the cap
\* and no document left out is newer than one answered, and answered
\* otherwise (store not connected, end + 1 day past datetime.max, the
\* cursor failing) no document is returned.
C12_RangeQuery ==
    RangeRequested =>
        LET logs     == last.out.logs
            n        == Len(logs)
            answered == {logs[k] : k \in 1..n}
            matching == {i \in 1..Len(store) : InRange(i)}
        IN  /\ n <= 5000
            /\ answered \subseteq matching
            /\ Cardinality(answered) = n
            /\ \A k \in 1..(n - 1) :
                  store[logs[k]].timestamp >= store[logs[k + 1]].timestamp
            /\ IF last.out.code = 200
               THEN /\ n = IF Cardinality(matching) < 5000
                           THEN Cardinality(matching) ELSE 5000
                    /\ \A i \in matching \ answered :
                          store[i].timestamp <= store[logs[n]].timestamp
               ELSE n = 0

\* a range over days 0 and 1 met more than 5000 matching documents and
\* answered 5000, the three of day 1 first
C12_Witness ==
    /\ RangeRequested
    /\ last.out.code = 200
    /\ last.rq.start_date[1].hour = 0
    /\ last.rq.end_date[1].hour = Day
    /\ Len(store) > 5000
    /\ Len(last.out.logs) = 5000
    /\ store[last.out.logs[1]].timestamp = 24
    /\ store[last.out.logs[4]].timestamp = 23

\* C13: the drag of every stored record is absent or has a non-empty main.
C13_DragHasMain ==
    \A i \in 1..Len(store) :
        ("drag" \in DOMAIN store[i] /\ store[i].drag # None)
            => store[i].drag[1].main # ""

\* the bytes of the last upload cannot be decoded as an image: they are not
\* the encoding of one
Undecodable == GateReached /\ last.env.image.kind # "image"
GateFault == GateReached /\ GateTry(last.env.image).raised

\* C14: contains_potential_digits never raises; bytes that cannot be decoded
\* as an image give false, a fault inside the heuristic gives true, and after
\* such a fault the upload calls extract_mould_values.
C14_GateFailsOpen ==
    GateReached =>
        /\ contains_potential_digits(last.env.image) \in BOOLEAN
        /\ Undecodable
               => ~contains_potential_digits(last.env.image) /\ last.calls = 0
        /\ GateFault
               => contains_potential_digits(last.env.image) /\ last.calls = 1

\* the part of C14 the code keeps: the gate answers a boolean, false for
\* bytes imdecode returns None on, true whenever OpenCV raises, and the
\* upload calls extract_mould_values exactly when the gate answers true
C14_FailsOpenOnFault ==
    GateReached =>
        /\ contains_potential_digits(last.env.image) \in BOOLEAN
        /\ last.env.image.kind = "garbage"
               => ~contains_potential_digits(last.env.image)
        /\ GateFault => contains_potential_digits(last.env.image)
        /\ last.calls = IF contains_potential_digits(last.env.image)
                        THEN 1 ELSE 0

\* C15: the MouldReading derived from an extraction has the extracted cope,
\* drag = DragValue(main = drag_main, sub = drag_sub) when drag_main is
\* present, and no drag when drag_main is absent.
Extracted == last.op = "extract" /\ last.out.ok

C15_DragWhenMainPresent ==
    Extracted =>
        /\ last.out.val.cope = last.llm.cope
        /\ last.llm.drag_main # None
               => last.out.val.drag =
                      Some(DragValue(last.llm.drag_main[1], last.llm.drag_sub))
        /\ last.llm.drag_main = None => last.out.val.drag = None

\* C15 as amended: the drag is built when drag_main is a non-empty string,
\* and absent when drag_main is absent or the empty string.
C15_DragWhenMainNonEmpty ==
    Extracted =>
        /\ last.out.val.cope = last.llm.cope
        /\ last.llm.drag_main \notin {None, Some("")}
               => last.out.val.drag =
                      Some(DragValue(last.llm.drag_main[1], last.llm.drag_sub))
        /\ last.llm.drag_main \in {None, Some("")}
               => last.out.val.drag = None

C15_Witness ==
    /\ Extracted
    /\ last.llm.drag_main = Some("")
    /\ last.llm.drag_sub = Some("644")
    /\ last.out.val.drag = None

\* C16: on a decoded image the gate answers true exactly when at least 3 of
\* the contour boxes have 50 < w*h < 0.1 * image_area and 0.1 < w/h < 10
\* (a box of height 0 is no candidate), whatever their place in the list.
IsCandidate(w, h, image_area) ==
    /\ 50 < w * h
    /\ 10 * (w * h) < image_area
    /\ h # 0
    /\ h < 10 * w
    /\ w < 10 * h

CandidatesOf(img) ==
    { i \in 1..Len(img.boxes) :
        IsCandidate(img.boxes[i][1], img.boxes[i][2], img.rows * img.cols) }

C16_ThreeCandidates ==
    last.op = "gate" => (last.out <=> Cardinality(CandidatesOf(last.img)) >= 3)

\* three candidates after a box that is none, and one more after the third
C16_Witness ==
    /\ last.op = "gate"
    /\ last.out
    /\ Len(last.img.boxes) = 4
    /\ CandidatesOf(last.img) = {2, 3, 4}

\* C17: when the store has applied the updates of two concurrent corrections
\* of one record, the record holds for cope and for drag the value of the
\* last applied correction that supplied the field, the value it had before
\* when neither supplied it, and is_human_corrected is true.
RaceDone ==
    /\ last.op = "race"
    /\ \A p \in Racers : pending[p].pc = "done"
    /\ Len(last.writes) = 2

LastSupplier(f) ==
    LET S == {k \in 1..Len(last.writes) :
                 pending[last.writes[k]].reading[f] # None}
    IN  IF S = {} THEN 0 ELSE last.writes[MaxOf(S)]

C17_LastWriteWinsPerField ==
    RaceDone =>
        /\ \A f \in {"cope", "drag"} :
              Has(store[RaceTarget.key], f,
                  IF LastSupplier(f) = 0
                  THEN last.before[RaceTarget.key][f]
                  ELSE pending[LastSupplier(f)].reading[f])
        /\ IsHumanCorrected(store[RaceTarget.key])

\* request 1 supplied cope and drag, request 2, applied after it, only a
\* cope: the record has the cope of 2 and the drag of 1
C17_Witness ==
    /\ RaceDone
    /\ last.writes = <<1, 2>>
    /\ pending[1].reading = [cope |-> Some("99999"),
                             drag |-> Some(DragValue("77110", None))]
    /\ pending[2].reading = [cope |-> Some("22222"), drag |-> None]
    /\ store[RaceTarget.key].cope = Some("22222")
    /\ store[RaceTarget.key].drag = Some(DragValue("77110", None))

\* C18: a stored record has is_human_corrected = true exactly when a
\* correction with a non-empty body has been applied to it: no record has
\* the flag at the start, a step gives it to the record a non-empty
\* correction is applied to and to no other, no step takes it away, and only
\* a correction changes a record already stored.
AppliedTo(i) ==
    \E t \in BagToSet(pending), u \in BagToSet(pending') :
        /\ Writes(t, u)
        /\ t.reading # EmptyReading
        /\ t.obj_id = i
        /\ i \in 1..Len(store)

FlagStep ==
    /\ Len(store') >= Len(store)
    /\ \A i \in 1..Len(store') :
          IsHumanCorrected(store'[i]) <=>
              \/ i <= Len(store) /\ IsHumanCorrected(store[i])
              \/ AppliedTo(i)
    /\ \A i \in 1..Len(store) : store'[i] # store[i] => AppliedTo(i)

C18_FlagIffCorrected ==
    /\ \A i \in 1..Len(store) : ~IsHumanCorrected(store[i])
    /\ [][FlagStep]_vars

\* a corrected record is still flagged, and its neighbour still is not,
\* after a later upload
C18_Witness ==
    /\ Len(store) = 2
    /\ IsHumanCorrected(store[1])
    /\ ~IsHumanCorrected(store[2])
    /\ last.op = "upload" /\ last.isImage /\ last.connected

\* C19: after the dashboard's mapping every fetched record has a status: its
\* own when it had one, and otherwise, when it has mould_detected, success
\* for true and empty for false.
C19_LegacyStatus ==
    last.op = "mapped" =>
        \A i \in 1..Len(last.raw_logs) :
            LET doc == last.raw_logs[i]
            IN  /\ notna(last.status[i])
                /\ "status" \in DOMAIN doc => last.status[i] = <<doc.status>>
                /\ ("status" \notin DOMAIN doc /\ "mould_detected" \in DOMAIN doc)
                       => last.status[i] = IF doc.mould_detected
                                           THEN <<"success">> ELSE <<"empty">>

\* the part of C19 the code keeps: the mapping when some fetched record has
\* a status
C19_LegacyStatusAmongNew ==
    (last.op = "mapped"
       /\ \E j \in 1..Len(last.raw_logs) : "status" \in DOMAIN last.raw_logs[j])
        => C19_LegacyStatus

====
